---------------------------- MODULE Spec2Model ----------------------------
(***************************************************************************)
(* A model of the two tutorial notebooks of the repository:                *)
(*   tutorials/1.introduction.ipynb    (Person, the loop over choices)     *)
(*   tutorials/3.1.validation-rag.ipynb (validators, citations, reasking)  *)
(* The state is the state of a notebook kernel: the call being executed,   *)
(* its arguments, how it ended, what it returned or raised, what it        *)
(* printed.  A Python str is a sequence of one-character strings.          *)
(***************************************************************************)
EXTENDS Integers, Sequences, FiniteSets, TLC

VARIABLES cell, arg, status, value, err, i, out, person

vars == <<cell, arg, status, value, err, i, out, person>>

(***************************************************************************)
(* Bounds of the model.                                                    *)
(***************************************************************************)
MaxTextLen == 3
MaxCiteLen == 2
MaxCitations == 2
MaxChunkLen == 2
MaxAnswerLen == 1
MaxNameLen == 3
MaxAbsAge == 10
MaxMessageLen == 3
MaxWordLen == 2
MaxBlacklist == 2
MaxLongLen == 11
MaxAgeStrLen == 4
MaxIntAge == 3
MaxChoices == 3
MaxRecords == 2

(* All strings over alphabet A of length at most n. *)
Strs(A, n) == UNION {[1..k -> A] : k \in 0..n}

(* All lists over S of length at most n. *)
Lists(S, n) == UNION {[1..k -> S] : k \in 0..n}

TextAlphabet == {"a", "b"}
Texts == Strs(TextAlphabet, MaxTextLen)
Cites == Strs(TextAlphabet, MaxCiteLen)
Answers == Strs(TextAlphabet, MaxAnswerLen)

(***************************************************************************)
(* Python str primitives used by the notebooks.                            *)
(***************************************************************************)

(* text.find(sub) scanning from 0-based index k: the lowest index at which *)
(* sub occurs, or -1.                                                      *)
RECURSIVE FindFrom(_, _, _)
FindFrom(text, sub, k) ==
    IF k + Len(sub) > Len(text) THEN -1
    ELSE IF SubSeq(text, k + 1, k + Len(sub)) = sub THEN k
    ELSE FindFrom(text, sub, k + 1)

Find(text, sub) == FindFrom(text, sub, 0)

(* sub in text *)
In(sub, text) == Find(text, sub) # -1

(* c.lower() of one character *)
LowerChar(c) ==
    CASE c = "A" -> "a"
      [] c = "B" -> "b"
      [] c = "J" -> "j"
      [] OTHER -> c

(* v.lower() *)
Lower(v) == [j \in 1..Len(v) |-> LowerChar(v[j])]

(***************************************************************************)
(* Outcomes of a call.                                                     *)
(***************************************************************************)
NoValue == [kind |-> "none"]
NoErr == [type |-> "none"]

Returned(v) == [status |-> "ok", value |-> v, err |-> NoErr]

(* A Python exception raised by repository code; about is the value the    *)
(* message names.                                                          *)
Raised(type, about) ==
    [status |-> "error", value |-> NoValue,
     err |-> [type |-> type, about |-> about]]

(* pydantic wraps a ValueError or AssertionError raised by a validator in  *)
(* a ValidationError for the field; any other exception propagates as is.  *)
Wrap(field, r) ==
    IF r.status = "error" /\ r.err.type \in {"ValueError", "AssertionError"}
    THEN [status |-> "error", value |-> NoValue,
          err |-> [type |-> "ValidationError", field |-> field,
                   cause |-> r.err.type, about |-> r.err.about]]
    ELSE r

(* The validation context handed to model_validate: None, or a dict. *)
NoContext == [present |-> FALSE, dict |-> <<>>]
Context(d) == [present |-> TRUE, dict |-> d]
(* Python truth value of the context: None and {} are false. *)
Truthy(context) == context.present /\ DOMAIN context.dict # {}
(* dict.get(key): the value, or None. *)
None == [kind |-> "None"]
HasKey(context, key) == key \in DOMAIN context.dict

(***************************************************************************)
(* Citation.check                                                          *)
(***************************************************************************)
Citation(s, e) == [span_start |-> s, span_end |-> e]

Check_Strict(self, text) ==
    LET index_start == Find(text, self.span_start)
        index_end == Find(text, self.span_end)
    IN  IF index_start = -1 \/ index_end = -1 THEN FALSE
        ELSE IF index_start >= index_end THEN FALSE
        ELSE TRUE

Check(self, text) ==
    LET index_start == Find(text, self.span_start)
        index_end == Find(text, self.span_end)
    IN  IF index_start = -1 \/ index_end = -1 THEN FALSE
        ELSE IF index_start > index_end THEN FALSE
        ELSE TRUE

(***************************************************************************)
(* UserDetail (age: int, name: Annotated[str, AfterValidator(...)])        *)
(***************************************************************************)
NameAlphabet == {"a", "A", " "}
(* The name and the age of the notebook's own call. *)
Jason == <<"J", "a", "s", "o", "n">>
JasonAge == 29
Names == Strs(NameAlphabet, MaxNameLen) \cup {Jason}
Ages == (-MaxAbsAge)..MaxAbsAge \cup {JasonAge}

name_must_contain_space_unchanged(v) ==
    IF ~In(<<" ">>, v)
    THEN Raised("ValueError", None)
    ELSE Returned(v)

name_must_contain_space(v) ==
    IF ~In(<<" ">>, v)
    THEN Raised("ValueError", None)      \* "Name must contain a space."
    ELSE Returned(Lower(v))

(* UserDetail(age=age, name=name): the value the AfterValidator returns is *)
(* the value of the field.                                                 *)
UserDetail_validated_name(age, name) ==
    LET r == Wrap("name", name_must_contain_space(name))
    IN  IF r.status = "ok"
        THEN Returned([age |-> age, name |-> r.value])
        ELSE r

(***************************************************************************)
(* UserDetail (age: int = Field(..., gt=0), name: str)                     *)
(***************************************************************************)
FieldError(field, kind, input) ==
    [status |-> "error", value |-> NoValue,
     err |-> [type |-> "ValidationError", field |-> field,
              cause |-> kind, about |-> input]]

age_gt == 0

age_field_ge(v) ==
    IF v >= age_gt THEN Returned(v) ELSE FieldError("age", "greater_than", v)

(* Field(..., gt=0) *)
age_field(v) ==
    IF v > age_gt THEN Returned(v) ELSE FieldError("age", "greater_than", v)

UserDetail_field_age(age, name) ==
    LET r == age_field(age)
    IN  IF r.status = "ok"
        THEN Returned([age |-> r.value, name |-> name])
        ELSE r

(***************************************************************************)
(* AssistantMessage (message: str = Field(..., min_length=10))             *)
(***************************************************************************)
LongMessages == Strs(TextAlphabet, MaxLongLen)

message_min_length == 10

message_field_exceeds(v) ==
    IF Len(v) > message_min_length
    THEN Returned(v)
    ELSE FieldError("message", "string_too_short", v)

(* Field(..., min_length=10): the length is at least min_length *)
message_field(v) ==
    IF Len(v) >= message_min_length
    THEN Returned(v)
    ELSE FieldError("message", "string_too_short", v)

AssistantMessage(message) ==
    LET r == message_field(message)
    IN  IF r.status = "ok" THEN Returned([message |-> r.value]) ELSE r

(***************************************************************************)
(* Response (message: str) with a blacklist in the validation context      *)
(***************************************************************************)
MessageAlphabet == {"a", "A", "b"}
WordAlphabet == {"a", "A"}
Messages == Strs(MessageAlphabet, MaxMessageLen)
Words == Strs(WordAlphabet, MaxWordLen)
(* The blacklist in the order its iteration yields the words. *)
Blacklists == Lists(Words, MaxBlacklist)

BlacklistContexts ==
    {NoContext, Context(<<>>)}
        \cup {Context([blacklist |-> b]) : b \in Blacklists}

(* The words compared with the message as it is, not lowercased. *)
RECURSIVE scan_blacklist_verbatim(_, _, _)
scan_blacklist_verbatim(blacklist, v, k) ==
    IF k > Len(blacklist) THEN Returned(v)
    ELSE IF In(blacklist[k], v)
         THEN Raised("AssertionError", [word |-> blacklist[k], message |-> v])
         ELSE scan_blacklist_verbatim(blacklist, v, k + 1)

(* The words lowercased as the message is before they are compared. *)
RECURSIVE scan_blacklist_folding(_, _, _)
scan_blacklist_folding(blacklist, v, k) ==
    IF k > Len(blacklist) THEN Returned(v)
    ELSE IF In(Lower(blacklist[k]), Lower(v))
         THEN Raised("AssertionError", [word |-> blacklist[k], message |-> v])
         ELSE scan_blacklist_folding(blacklist, v, k + 1)

(* for word in blacklist: assert word not in v.lower(); from the k-th word *)
RECURSIVE scan_blacklist(_, _, _)
scan_blacklist(blacklist, v, k) ==
    IF k > Len(blacklist) THEN Returned(v)
    ELSE IF In(blacklist[k], Lower(v))
         THEN Raised("AssertionError", [word |-> blacklist[k], message |-> v])
         ELSE scan_blacklist(blacklist, v, k + 1)

(* message_cannot_have_blacklisted_words(cls, v, info) *)
message_cannot_have_blacklisted_words(v, context) ==
    IF ~context.present
    THEN Raised("AttributeError", None)       \* None has no attribute get
    ELSE LET blacklist == IF HasKey(context, "blacklist")
                          THEN context.dict.blacklist
                          ELSE <<>>
         IN  scan_blacklist(blacklist, v, 1)

(* Response.model_validate({"message": message}, context) *)
Response_model_validate(obj, context) ==
    LET r == Wrap("message",
                  message_cannot_have_blacklisted_words(obj.message, context))
    IN  IF r.status = "ok" THEN Returned([message |-> r.value]) ELSE r

(***************************************************************************)
(* AnswerWithCitation (answer: str, citation: str)                         *)
(***************************************************************************)

(* The validation contexts a caller may hand over: None, {}, a dict        *)
(* without the key text_chunk, a dict with it.                             *)
ChunkContexts ==
    {NoContext, Context(<<>>)}
        \cup {Context([other |-> t]) : t \in Texts}
        \cup {Context([text_chunk |-> t]) : t \in Texts}

(* The operands of the substring test the wrong way round. *)
citation_exists_reversed(v, context) ==
    IF Truthy(context)
    THEN IF ~HasKey(context, "text_chunk")
         THEN Raised("TypeError", None)
         ELSE IF ~In(context.dict.text_chunk, v)
              THEN Raised("ValueError", v)
              ELSE Returned(v)
    ELSE Returned(v)

(* citation_exists(cls, v, info), context being info.context *)
citation_exists(v, context) ==
    IF Truthy(context)
    THEN IF ~HasKey(context, "text_chunk")
         THEN Raised("TypeError", None)       \* v not in None
         ELSE IF ~In(v, context.dict.text_chunk)
              THEN Raised("ValueError", v)
              ELSE Returned(v)
    ELSE Returned(v)

(* AnswerWithCitation.model_validate({answer, citation}, context) *)
AnswerWithCitation_model_validate(obj, context) ==
    LET r == Wrap("citation", citation_exists(obj.citation, context))
    IN  IF r.status = "ok"
        THEN Returned([answer |-> obj.answer, citation |-> r.value])
        ELSE r

(***************************************************************************)
(* AnswerWithCitation (answer: str, citations: list[str])                  *)
(***************************************************************************)
AnswerExample == <<"a">>
ChunkTexts == Strs(TextAlphabet, MaxChunkLen)
ListContexts ==
    {NoContext, Context(<<>>)}
        \cup {Context([text_chunk |-> t]) : t \in ChunkTexts}

(* How a loop ended, and how many of its iterations were entered. *)
Scanned(r, n) == [r |-> r, examined |-> n]

(* The loop goes on after a citation that is not found and raises for the  *)
(* last one that is not.                                                   *)
RECURSIVE scan_citations_last(_, _, _, _)
scan_citations_last(v, text_chunk, k, failed) ==
    IF k > Len(v)
    THEN IF failed = 0 THEN Scanned(Returned(v), k - 1)
         ELSE Scanned(Raised("ValueError", v[failed]), k - 1)
    ELSE scan_citations_last(v, text_chunk, k + 1,
             IF ~In(v[k], text_chunk) THEN k ELSE failed)

scan_citations_to_the_end(v, text_chunk, k) ==
    scan_citations_last(v, text_chunk, k, 0)

(* for citation in v: if citation not in text_chunk: raise ...; return v   *)
(* from the k-th citation on                                               *)
RECURSIVE scan_citations(_, _, _)
scan_citations(v, text_chunk, k) ==
    IF k > Len(v) THEN Scanned(Returned(v), k - 1)
    ELSE IF ~In(v[k], text_chunk)
         THEN Scanned(Raised("ValueError", v[k]), k)
         ELSE scan_citations(v, text_chunk, k + 1)

(* citation_exists(cls, v, info) of the list[str] model *)
citation_exists_list(v, context) ==
    IF ~context.present
    THEN Scanned(Raised("AttributeError", None), 0)
    ELSE IF ~HasKey(context, "text_chunk")
         THEN IF v = <<>> THEN Scanned(Returned(v), 0)
              ELSE Scanned(Raised("TypeError", None), 1)  \* citation not in None
         ELSE scan_citations(v, context.dict.text_chunk, 1)

(***************************************************************************)
(* AnswerWithCitation (answer: str, citations: list[Citation])             *)
(***************************************************************************)
(* The markers of the citations of a list: empty, or one character (the   *)
(* markers of a single Citation.check call are drawn from Cites).          *)
Spans == {<<>>} \cup {<<c>> : c \in TextAlphabet}

(* for citation in v: if not citation.check(text_chunk): raise ...         *)
RECURSIVE scan_checks(_, _, _)
scan_checks(v, text_chunk, k) ==
    IF k > Len(v) THEN Scanned(Returned(v), k - 1)
    ELSE IF ~Check(v[k], text_chunk)
         THEN Scanned(Raised("ValueError", v[k]), k)
         ELSE scan_checks(v, text_chunk, k + 1)

(* citation_exists(cls, v, info) of the list[Citation] model *)
citation_exists_spans(v, context) ==
    IF ~context.present
    THEN Scanned(Raised("AttributeError", None), 0)
    ELSE IF ~HasKey(context, "text_chunk")
         THEN IF v = <<>> THEN Scanned(Returned(v), 0)
              ELSE Scanned(Raised("AttributeError", None), 1)  \* None.find
         ELSE scan_checks(v, context.dict.text_chunk, 1)

(* AnswerWithCitation.model_validate({answer, citations}, context), the    *)
(* validator having ended as scanned                                       *)
AnswerWithCitations_model_validate(obj, scanned) ==
    LET r == Wrap("citations", scanned.r)
    IN  IF r.status = "ok"
        THEN Returned([answer |-> obj.answer, citations |-> r.value])
        ELSE r

(***************************************************************************)
(* Person (name: str, age: int), 1.introduction                            *)
(***************************************************************************)
Sam == <<"S", "a", "m">>
PersonNames == {Sam, Jason}

Digits == {"0", "1", "2", "3", "4", "5", "6", "7", "8", "9"}
DigitValue(c) ==
    CASE c = "0" -> 0 [] c = "1" -> 1 [] c = "2" -> 2 [] c = "3" -> 3
      [] c = "4" -> 4 [] c = "5" -> 5 [] c = "6" -> 6 [] c = "7" -> 7
      [] c = "8" -> 8 [] c = "9" -> 9

(* The age as the caller gives it: a str or an int. *)
AgeAlphabet == {"0", "2", "3", "."}
StrAge(s) == [type |-> "str", s |-> s, n |-> 0]
IntAge(n) == [type |-> "int", s |-> <<>>, n |-> n]
AgeInputs ==
    {StrAge(s) : s \in Strs(AgeAlphabet, MaxAgeStrLen)}
        \cup {IntAge(n) : n \in 0..MaxIntAge}

Some(v) == [some |-> TRUE, v |-> v]
Nothing == [some |-> FALSE, v |-> 0]

(* The digits of s from the k-th on, read as a decimal number onto acc;    *)
(* nothing for a string with a character that is no digit.                 *)
RECURSIVE parse_digits(_, _, _)
parse_digits(s, k, acc) ==
    IF k > Len(s) THEN Some(acc)
    ELSE IF s[k] \notin Digits THEN Nothing
    ELSE parse_digits(s, k + 1, acc * 10 + DigitValue(s[k]))

(* str -> int of a string without sign: the empty string is no number. *)
parse_str(s) == IF s = <<>> THEN Nothing ELSE parse_digits(s, 1, 0)

(* "<digits>.000" is taken as "<digits>": the part before the first ".",   *)
(* when only zeros follow it.                                              *)
strip_decimal_zeros(s) ==
    LET dot == Find(s, <<".">>)
    IN  IF dot # -1 /\ \A j \in (dot + 2)..Len(s) : s[j] = "0"
        THEN Some(SubSeq(s, 1, dot))
        ELSE Nothing

(* The first run of digits is taken as the number, whatever follows. *)
str_as_int_truncating(s) ==
    LET dot == Find(s, <<".">>)
    IN  IF dot = -1 THEN parse_str(s) ELSE parse_str(SubSeq(s, 1, dot))

(* pydantic's lax str -> int *)
str_as_int(s) ==
    IF parse_str(s).some THEN parse_str(s)
    ELSE IF strip_decimal_zeros(s).some
         THEN parse_str(strip_decimal_zeros(s).v)
         ELSE Nothing

(* age: int *)
Person_age(input) ==
    IF input.type = "int" THEN Returned(input.n)
    ELSE IF str_as_int(input.s).some
         THEN Returned(str_as_int(input.s).v)
         ELSE FieldError("age", "int_parsing", input.s)

(* Person.model_validate({"name": name, "age": age}) *)
Person_model_validate(obj) ==
    LET r == Person_age(obj.age)
    IN  IF r.status = "ok"
        THEN Returned([name |-> obj.name, age |-> r.value])
        ELSE r

(* The content of a completion choice: JSON text of an object, or text    *)
(* that is no JSON (prose, a fenced block).  obj is the object's members.  *)
JsonObject(obj) == [json |-> TRUE, obj |-> obj]
NotJson == [json |-> FALSE, obj |-> <<>>]

Ten == <<"1", "0">>
TenPointFive == <<"1", "0", ".", "5">>

(* What the model may answer to "Please give me jason is 10 as a json      *)
(* object".                                                                *)
Contents ==
    {NotJson,
     JsonObject([Jason |-> [age |-> IntAge(10)]]),
     JsonObject([name |-> Jason]),
     JsonObject([name |-> Jason, age |-> IntAge(10)]),
     JsonObject([name |-> Jason, age |-> StrAge(Ten)]),
     JsonObject([name |-> Jason, age |-> StrAge(TenPointFive)])}

(* Person.model_validate_json(json) *)
Person_model_validate_json(json) ==
    IF ~json.json THEN FieldError("", "json_invalid", None)
    ELSE IF "name" \notin DOMAIN json.obj
         THEN FieldError("name", "missing", None)
    ELSE IF "age" \notin DOMAIN json.obj
         THEN FieldError("age", "missing", None)
    ELSE Person_model_validate(json.obj)

(* The body of the loop with nothing around the validation: its exception  *)
(* leaves the loop.                                                        *)
try_validate_uncaught(json, printed) ==
    LET r == Person_model_validate_json(json)
    IN  IF r.status = "error"
        THEN [status |-> "error", err |-> r.err, out |-> printed]
        ELSE [status |-> "running", err |-> NoErr, out |-> printed]

(* The body of the loop with a break in the handler: the first content     *)
(* that fails validation is printed and the loop is left.                  *)
try_validate_stopping(json, printed) ==
    LET r == Person_model_validate_json(json)
    IN  IF r.status = "error"
        THEN [status |-> "ok", err |-> NoErr, out |-> Append(printed, json)]
        ELSE [status |-> "running", err |-> NoErr, out |-> printed]

(* try: Person.model_validate_json(json)                                   *)
(* except Exception as e: print(json)                                      *)
try_validate(json, printed) ==
    LET r == Person_model_validate_json(json)
    IN  IF r.status = "error"
        THEN [status |-> "running", err |-> NoErr, out |-> Append(printed, json)]
        ELSE [status |-> "running", err |-> NoErr, out |-> printed]

asserted_name == Sam
asserted_age == 20

(* assert person.name == "Sam"; assert person.age == 20 *)
assert_person(p) ==
    IF p.name # asserted_name THEN Raised("AssertionError", "name")
    ELSE IF p.age # asserted_age THEN Raised("AssertionError", "age")
    ELSE Returned(None)

(***************************************************************************)
(* The dictionaries of 1.introduction: data and the two loops over it      *)
(***************************************************************************)
Str(s) == [type |-> "str", s |-> s, n |-> 0]
NoneValue == [type |-> "NoneType", s |-> <<>>, n |-> 0]

DataAge == 10

(* The records data may hold: the name under the key first_name or under   *)
(* firstName, the age an int, a str of digits, or missing.                 *)
DataAges ==
    {IntAge(n) : n \in 0..MaxIntAge} \cup {IntAge(DataAge), Str(Ten)}
Records ==
    {[first_name |-> Str(Jason), age |-> a] : a \in DataAges}
        \cup {[firstName |-> Str(Jason), age |-> a] : a \in DataAges}
        \cup {[first_name |-> Str(Jason)]}

(* data = [{"first_name": "Jason", "age": 10},                             *)
(*         {"firstName": "Jason", "age": "10"}]                            *)
data ==
    <<[first_name |-> Str(Jason), age |-> IntAge(DataAge)],
      [firstName |-> Str(Jason), age |-> Str(Ten)]>>

(* obj.get(key) *)
get(obj, key) == IF key \in DOMAIN obj THEN obj[key] ELSE NoneValue

DigitChar(d) ==
    CASE d = 0 -> "0" [] d = 1 -> "1" [] d = 2 -> "2" [] d = 3 -> "3"
      [] d = 4 -> "4" [] d = 5 -> "5" [] d = 6 -> "6" [] d = 7 -> "7"
      [] d = 8 -> "8" [] d = 9 -> "9"

(* str(n) of an int that is not negative *)
RECURSIVE IntToStr(_)
IntToStr(n) ==
    IF n < 10 THEN <<DigitChar(n)>>
    ELSE IntToStr(n \div 10) \o <<DigitChar(n % 10)>>

(* f"{v}" *)
Format(v) ==
    CASE v.type = "str" -> v.s
      [] v.type = "int" -> IntToStr(v.n)
      [] v.type = "NoneType" -> <<"N", "o", "n", "e">>

(* age+1 with a str of digits read as the number it denotes. *)
add_one_coercing(age) ==
    IF age.type = "int" THEN Returned(IntAge(age.n + 1))
    ELSE IF age.type = "str" /\ parse_str(age.s).some
         THEN Returned(IntAge(parse_str(age.s).v + 1))
         ELSE Raised("TypeError", age.type)

(* age+1: defined for an int; a str or None with an int is a TypeError *)
add_one(age) ==
    IF age.type = "int" THEN Returned(IntAge(age.n + 1))
    ELSE Raised("TypeError", age.type)

(* print(f"{name} is {age}") *)
print_is(obj, printed) ==
    LET name == get(obj, "first_name")
        age == get(obj, "age")
    IN  Append(printed,
               [line |-> "is", name |-> Format(name), age |-> Format(age)])

(* print(f"Next year {name} will be {age+1} years old") *)
print_next_year(obj, printed) ==
    LET name == get(obj, "first_name")
        age == get(obj, "age")
        r == add_one(age)
    IN  IF r.status = "error"
        THEN [status |-> "error", err |-> r.err, out |-> printed]
        ELSE [status |-> "running", err |-> NoErr,
              out |-> Append(printed,
                             [line |-> "next year", name |-> Format(name),
                              age |-> Format(r.value)])]

(***************************************************************************)
(* Validators that ask a hosted model: openai_moderation, llm_validator    *)
(***************************************************************************)

(* AfterValidator(openai_moderation(...)) / AfterValidator(llm_validator   *)
(* (...)): the verdict is the hosted model's; a refusal is a ValueError.   *)
hosted_validator(v, accepted) ==
    IF accepted THEN Returned(v) ELSE Raised("ValueError", v)

(* Response(message=v) with ModeratedStr, AssistantMessage(message=v) with *)
(* HealthTopicStr                                                          *)
hosted_validated_model(v, accepted) ==
    LET r == Wrap("message", hosted_validator(v, accepted))
    IN  IF r.status = "ok" THEN Returned([message |-> r.value]) ELSE r

(***************************************************************************)
(* Reasking: client.chat.completions.create(response_model=QuestionAnswer, *)
(* max_retries=2) of the patched client                                    *)
(***************************************************************************)
max_retries_one_more == 2 + 1

max_retries == 2

question == "What is the meaning of life?"

(* The answers the model may give, as the validator tells them apart. *)
ModelAnswers == {"a life of sin and debauchery", "a life of virtue"}

(* One request of the patched client and what follows it: the model's      *)
(* answer is validated as a QuestionAnswer; an answer that passes is       *)
(* returned; for one that fails the validation error is appended to the    *)
(* messages and, unless the retries are used up, the model is asked again. *)
(* retries counts the failures so far, asked the requests made.            *)
retry_sync(retries, asked, answer, accepted, limit) ==
    LET made == Append(asked, [answer |-> answer, accepted |-> accepted])
    IN  IF accepted
        THEN [r |-> Returned([question |-> question, answer |-> answer]),
              retries |-> retries, asked |-> made]
        ELSE IF retries + 1 > limit
             THEN [r |-> FieldError("answer", "ValueError", answer),
                   retries |-> retries + 1, asked |-> made]
             ELSE [r |-> [status |-> "running", value |-> NoValue,
                          err |-> NoErr],
                   retries |-> retries + 1, asked |-> made]

(***************************************************************************)
(* The kernel.                                                             *)
(***************************************************************************)
Init ==
    /\ cell = "none"
    /\ arg = NoValue
    /\ status = "idle"
    /\ value = NoValue
    /\ err = NoErr
    /\ i = 0
    /\ out = <<>>
    /\ person = None

(* The kernel is idle: it can take a cell. *)
Idle == status = "idle"

(* A call that runs to its end in one step. *)
Call(name, a, r) ==
    /\ cell' = name
    /\ arg' = a
    /\ status' = r.status
    /\ value' = r.value
    /\ err' = r.err
    /\ i' = 0
    /\ out' = <<>>
    /\ person' = person

(* citation.check(text) *)
CallCitationCheck ==
    /\ Idle
    /\ \E s \in Cites, e \in Cites, text \in Texts :
           Call("Citation.check",
                [citation |-> Citation(s, e), text |-> text],
                Returned(Check(Citation(s, e), text)))

CallAnswerWithCitation ==
    /\ Idle
    /\ \E answer \in Answers, citation \in Cites, context \in ChunkContexts :
           Call("AnswerWithCitation.model_validate",
                [obj |-> [answer |-> answer, citation |-> citation],
                 context |-> context],
                AnswerWithCitation_model_validate(
                    [answer |-> answer, citation |-> citation], context))

(* A call of model_validate whose field validator is a loop. *)
CallScanning(name, obj, context, scanned) ==
    LET r == AnswerWithCitations_model_validate(obj, scanned)
    IN  /\ cell' = name
        /\ arg' = [obj |-> obj, context |-> context]
        /\ status' = r.status
        /\ value' = r.value
        /\ err' = r.err
        /\ i' = scanned.examined
        /\ UNCHANGED <<out, person>>

(* AnswerWithCitation.model_validate of the list[str] model *)
CallAnswerWithCitationList ==
    /\ Idle
    /\ \E v \in Lists(Cites, MaxCitations), context \in ListContexts :
           CallScanning("AnswerWithCitation(list[str]).model_validate",
                        [answer |-> AnswerExample, citations |-> v], context,
                        citation_exists_list(v, context))

(* AnswerWithCitation.model_validate of the list[Citation] model *)
CallAnswerWithCitationSpans ==
    /\ Idle
    /\ \E starts \in Lists(Spans, MaxCitations), context \in ListContexts :
           \E ends \in [1..Len(starts) -> Spans] :
               LET v == [k \in 1..Len(starts) |->
                            Citation(starts[k], ends[k])]
               IN  CallScanning(
                       "AnswerWithCitation(list[Citation]).model_validate",
                       [answer |-> AnswerExample, citations |-> v], context,
                       citation_exists_spans(v, context))

(* person = UserDetail(age=age, name=name), the name validated *)
CallUserDetailName ==
    /\ Idle
    /\ \E age \in Ages, name \in Names :
           Call("UserDetail(name validator)", [age |-> age, name |-> name],
                UserDetail_validated_name(age, name))

(* person = UserDetail(age=age, name=name), the age constrained *)
CallUserDetailAge ==
    /\ Idle
    /\ \E age \in Ages, name \in Names :
           Call("UserDetail(age gt)", [age |-> age, name |-> name],
                UserDetail_field_age(age, name))

(* message = AssistantMessage(message=m) *)
CallAssistantMessage ==
    /\ Idle
    /\ \E m \in LongMessages :
           Call("AssistantMessage", [message |-> m], AssistantMessage(m))

(* Response.model_validate({"message": m}, context=context) *)
CallResponse ==
    /\ Idle
    /\ \E m \in Messages, context \in BlacklistContexts :
           Call("Response.model_validate",
                [obj |-> [message |-> m], context |-> context],
                Response_model_validate([message |-> m], context))

(* person = Person.model_validate({"name": name, "age": age}): person is   *)
(* bound only when the call returns.                                       *)
CallPersonValidate ==
    /\ Idle
    /\ \E name \in PersonNames, age \in AgeInputs :
           LET r == Person_model_validate([name |-> name, age |-> age])
           IN  /\ cell' = "Person.model_validate"
               /\ arg' = [obj |-> [name |-> name, age |-> age]]
               /\ status' = r.status
               /\ value' = r.value
               /\ err' = r.err
               /\ person' = IF r.status = "ok" THEN r.value ELSE person
               /\ UNCHANGED <<i, out>>

(* The cell after it: the two asserts on person. *)
CellAssertPerson ==
    /\ cell = "Person.model_validate"
    /\ status = "ok"
    /\ LET r == assert_person(person)
       IN  /\ cell' = "assert person"
           /\ arg' = [person |-> person]
           /\ status' = r.status
           /\ value' = r.value
           /\ err' = r.err
           /\ UNCHANGED <<i, out, person>>

(* Response(message=m) moderated, AssistantMessage(message=m) judged *)
CallHostedValidated ==
    /\ Idle
    /\ \E name \in {"Response(ModeratedStr)", "AssistantMessage(HealthTopicStr)"},
          m \in Messages, accepted \in BOOLEAN :
           Call(name, [message |-> m, accepted |-> accepted],
                hosted_validated_model(m, accepted))

(* resp = client.chat.completions.create(..., n=20): the cell with the     *)
(* loop over resp.choices starts.                                          *)
ChoicesLoopStart ==
    /\ Idle
    /\ \E choices \in Lists(Contents, MaxChoices) :
           /\ cell' = "for choice in resp.choices"
           /\ arg' = [choices |-> choices]
           /\ status' = "running"
           /\ i' = 0
           /\ out' = <<>>
           /\ UNCHANGED <<value, err, person>>

(* One iteration: the next choice is validated. *)
ChoicesLoopStep ==
    /\ cell = "for choice in resp.choices"
    /\ status = "running"
    /\ i < Len(arg.choices)
    /\ LET t == try_validate(arg.choices[i + 1], out)
       IN  /\ status' = t.status
           /\ err' = t.err
           /\ out' = t.out
    /\ i' = i + 1
    /\ UNCHANGED <<cell, arg, value, person>>

(* The choices are exhausted: the cell ends. *)
ChoicesLoopEnd ==
    /\ cell = "for choice in resp.choices"
    /\ status = "running"
    /\ i = Len(arg.choices)
    /\ status' = "ok"
    /\ UNCHANGED <<cell, arg, value, err, i, out, person>>

(* The cell with the two loops over data starts with the first loop. *)
DataLoopStart ==
    /\ Idle
    /\ \E d \in Lists(Records, MaxRecords) \cup {data} :
           /\ cell' = "for obj in data: print is"
           /\ arg' = [data |-> d]
           /\ status' = "running"
           /\ i' = 0
           /\ out' = <<>>
           /\ UNCHANGED <<value, err, person>>

(* One iteration of the first loop. *)
DataLoopIs ==
    /\ cell = "for obj in data: print is"
    /\ status = "running"
    /\ i < Len(arg.data)
    /\ out' = print_is(arg.data[i + 1], out)
    /\ i' = i + 1
    /\ UNCHANGED <<cell, arg, status, value, err, person>>

(* The first loop is exhausted: the second loop starts. *)
DataLoopSecond ==
    /\ cell = "for obj in data: print is"
    /\ status = "running"
    /\ i = Len(arg.data)
    /\ cell' = "for obj in data: print next year"
    /\ i' = 0
    /\ UNCHANGED <<arg, status, value, err, out, person>>

(* One iteration of the second loop: an exception of age+1 ends the cell. *)
DataLoopNextYear ==
    /\ cell = "for obj in data: print next year"
    /\ status = "running"
    /\ i < Len(arg.data)
    /\ LET t == print_next_year(arg.data[i + 1], out)
       IN  /\ status' = t.status
           /\ err' = t.err
           /\ out' = t.out
    /\ i' = i + 1
    /\ UNCHANGED <<cell, arg, value, person>>

(* The second loop is exhausted: the cell ends. *)
DataLoopEnd ==
    /\ cell = "for obj in data: print next year"
    /\ status = "running"
    /\ i = Len(arg.data)
    /\ status' = "ok"
    /\ UNCHANGED <<cell, arg, value, err, i, out, person>>

(* resp = client.chat.completions.create(..., max_retries=2, ...): the     *)
(* call starts.                                                            *)
CreateStart ==
    /\ Idle
    /\ cell' = "create(response_model=QuestionAnswer)"
    /\ arg' = [max_retries |-> max_retries]
    /\ status' = "running"
    /\ i' = 0
    /\ out' = <<>>
    /\ UNCHANGED <<value, err, person>>

(* The model is asked, or asked again, and its answer validated; the       *)
(* verdict on the answer is the hosted validator's.                        *)
CreateAsk ==
    /\ cell = "create(response_model=QuestionAnswer)"
    /\ status = "running"
    /\ \E answer \in ModelAnswers, accepted \in BOOLEAN :
           LET t == retry_sync(i, out, answer, accepted, arg.max_retries)
           IN  /\ status' = t.r.status
               /\ value' = t.r.value
               /\ err' = t.r.err
               /\ i' = t.retries
               /\ out' = t.asked
    /\ UNCHANGED <<cell, arg, person>>

(* The kernel is restarted after a cell has ended, with a value or an      *)
(* error: every variable is cleared.                                       *)
Restart ==
    /\ status \in {"ok", "error"}
    /\ cell' = "none"
    /\ arg' = NoValue
    /\ status' = "idle"
    /\ value' = NoValue
    /\ err' = NoErr
    /\ i' = 0
    /\ out' = <<>>
    /\ person' = None

Next ==
    \/ CallCitationCheck
    \/ CallAnswerWithCitation
    \/ CallAnswerWithCitationList
    \/ CallAnswerWithCitationSpans
    \/ CallUserDetailName
    \/ CallUserDetailAge
    \/ CallAssistantMessage
    \/ CallResponse
    \/ CallPersonValidate
    \/ CellAssertPerson
    \/ CallHostedValidated
    \/ ChoicesLoopStart
    \/ ChoicesLoopStep
    \/ ChoicesLoopEnd
    \/ DataLoopStart
    \/ DataLoopIs
    \/ DataLoopSecond
    \/ DataLoopNextYear
    \/ DataLoopEnd
    \/ CreateStart
    \/ CreateAsk
    \/ Restart

Spec == Init /\ [][Next]_vars

(***************************************************************************)
(* Declarative vocabulary of the claims.                                   *)
(***************************************************************************)

(* sub occurs in text at 0-based index k. *)
OccursAt(text, sub, k) ==
    /\ k \in 0..(Len(text) - Len(sub))
    /\ \A j \in 1..Len(sub) : text[k + j] = sub[j]

Occurs(text, sub) == \E k \in 0..Len(text) : OccursAt(text, sub, k)

(* The index of the first occurrence of sub, which occurs in text. *)
FirstIndex(text, sub) ==
    CHOOSE k \in 0..Len(text) :
        /\ OccursAt(text, sub, k)
        /\ \A m \in 0..(k - 1) : ~OccursAt(text, sub, m)

(* C1 (as stated): Citation.check returns True only when both markers      *)
(* occur in the text and the first occurrence of span_start is at a        *)
(* strictly smaller index than the first occurrence of span_end; in every  *)
(* other case, equal indices included, it returns False.                   *)
C1_CheckStrictlyBefore ==
    (cell = "Citation.check" /\ status = "ok") =>
        (value = TRUE <=>
            /\ Occurs(arg.text, arg.citation.span_start)
            /\ Occurs(arg.text, arg.citation.span_end)
            /\ FirstIndex(arg.text, arg.citation.span_start)
                 < FirstIndex(arg.text, arg.citation.span_end))

(* C1 (amended): Citation.check returns True exactly when both markers     *)
(* occur in the text and the first occurrence of span_start is at an index *)
(* not greater than the first occurrence of span_end (equal indices        *)
(* return True); in every other case it returns False.                     *)
C1_CheckNotAfter ==
    (cell = "Citation.check" /\ status = "ok") =>
        (value = TRUE <=>
            /\ Occurs(arg.text, arg.citation.span_start)
            /\ Occurs(arg.text, arg.citation.span_end)
            /\ FirstIndex(arg.text, arg.citation.span_start)
                 <= FirstIndex(arg.text, arg.citation.span_end))

(* Both markers occur, first at the same index, and check returned True. *)
C1_Witness ==
    /\ cell = "Citation.check"
    /\ status = "ok"
    /\ arg.citation.span_start # arg.citation.span_end
    /\ Len(arg.citation.span_start) > 0
    /\ Occurs(arg.text, arg.citation.span_start)
    /\ Occurs(arg.text, arg.citation.span_end)
    /\ FirstIndex(arg.text, arg.citation.span_start)
         = FirstIndex(arg.text, arg.citation.span_end)
    /\ value = TRUE

(* The call carries a context with a text_chunk. *)
C2_Case ==
    /\ cell = "AnswerWithCitation.model_validate"
    /\ arg.context.present
    /\ DOMAIN arg.context.dict = {"text_chunk"}

(* C2: for the single-citation AnswerWithCitation validated with a context *)
(* that carries a text_chunk, validation succeeds (returning the instance  *)
(* with the given answer and citation) if and only if the citation is a    *)
(* literal substring of text_chunk; otherwise the outcome is the           *)
(* ValueError of citation_exists naming the citation (reported by pydantic *)
(* as a validation error on the field citation) and there is no instance.  *)
C2_CitationIsSubstring ==
    C2_Case =>
        IF Occurs(arg.context.dict.text_chunk, arg.obj.citation)
        THEN /\ status = "ok"
             /\ value = arg.obj
             /\ err = NoErr
        ELSE /\ status = "error"
             /\ value = NoValue
             /\ err.type = "ValidationError"
             /\ err.field = "citation"
             /\ err.cause = "ValueError"
             /\ err.about = arg.obj.citation

(* A non-empty citation that is not in a non-empty text_chunk is rejected. *)
C2_Witness ==
    /\ C2_Case
    /\ Len(arg.obj.citation) > 0
    /\ Len(arg.context.dict.text_chunk) >= Len(arg.obj.citation)
    /\ ~Occurs(arg.context.dict.text_chunk, arg.obj.citation)
    /\ status = "error"

(* A call of Response.model_validate whose context carries a blacklist. *)
C3_Case ==
    /\ cell = "Response.model_validate"
    /\ arg.context.present
    /\ DOMAIN arg.context.dict = {"blacklist"}

(* C3 (as stated): for every message and every blacklist passed as         *)
(* validation context, Response validation rejects the message if it       *)
(* contains any member of the blacklist as a substring, and accepts the    *)
(* message, returning it, if it contains none of them.                     *)
C3_RejectIffContains ==
    C3_Case =>
        LET blacklist == arg.context.dict.blacklist
        IN  IF \E k \in 1..Len(blacklist) :
                   Occurs(arg.obj.message, blacklist[k])
            THEN status = "error"
            ELSE status = "ok" /\ value = arg.obj

(* sub occurs at index k of the lowercased text. *)
OccursFoldedAt(text, sub, k) ==
    /\ k \in 0..(Len(text) - Len(sub))
    /\ \A j \in 1..Len(sub) : LowerChar(text[k + j]) = sub[j]

OccursFolded(text, sub) ==
    \E k \in 0..Len(text) : OccursFoldedAt(text, sub, k)

(* C3 (amended): for every message and every blacklist passed as           *)
(* validation context, Response validation rejects the message if the      *)
(* lowercased message contains any member of the blacklist as a substring  *)
(* (a validation error on the field message, caused by the failed assert), *)
(* and accepts the message, returning it unchanged, if the lowercased      *)
(* message contains none of them.                                          *)
C3_RejectIffLoweredContains ==
    C3_Case =>
        LET blacklist == arg.context.dict.blacklist
        IN  IF \E k \in 1..Len(blacklist) :
                   OccursFolded(arg.obj.message, blacklist[k])
            THEN /\ status = "error"
                 /\ value = NoValue
                 /\ err.type = "ValidationError"
                 /\ err.field = "message"
                 /\ err.cause = "AssertionError"
            ELSE /\ status = "ok"
                 /\ value = arg.obj
                 /\ err = NoErr

(* A message rejected for a word it holds only in another letter case. *)
C3_Witness ==
    /\ C3_Case
    /\ status = "error"
    /\ \A k \in 1..Len(arg.context.dict.blacklist) :
           /\ ~Occurs(arg.obj.message, arg.context.dict.blacklist[k])
           /\ Len(arg.context.dict.blacklist[k]) = 2

(* C4 (as stated): AssistantMessage accepts a message only when its length *)
(* strictly exceeds the declared minimum length of 10; every message whose *)
(* length does not exceed the minimum is rejected.                         *)
C4_AcceptsOnlyLonger ==
    cell = "AssistantMessage" =>
        IF Len(arg.message) > 10 THEN status = "ok" ELSE status = "error"

(* C4 (amended): AssistantMessage accepts a message exactly when its       *)
(* length is at least the declared minimum length of 10 (a message of      *)
(* exactly 10 characters is accepted); every shorter message is rejected   *)
(* with a validation error on the field message.                           *)
C4_AcceptsAtLeastMin ==
    cell = "AssistantMessage" =>
        IF Len(arg.message) >= 10
        THEN /\ status = "ok"
             /\ value = [message |-> arg.message]
        ELSE /\ status = "error"
             /\ value = NoValue
             /\ err.type = "ValidationError"
             /\ err.field = "message"

(* A message of exactly 10 characters is accepted. *)
C4_Witness ==
    /\ cell = "AssistantMessage"
    /\ Len(arg.message) = 10
    /\ status = "ok"

(* C5: UserDetail (age: int with gt=0) is constructed only when age is     *)
(* strictly greater than zero; for every age <= 0 (zero and all negatives, *)
(* -10 among them) construction ends in a validation error and no instance *)
(* exists.                                                                 *)
C5_AgeStrictlyPositive ==
    cell = "UserDetail(age gt)" =>
        IF arg.age > 0
        THEN /\ status = "ok"
             /\ value = [age |-> arg.age, name |-> arg.name]
        ELSE /\ status = "error"
             /\ value = NoValue
             /\ err.type = "ValidationError"
             /\ err.field = "age"

(* The notebook's call, age -10, ended in a validation error. *)
C5_Witness ==
    /\ cell = "UserDetail(age gt)"
    /\ arg.age = -10
    /\ arg.name = Jason
    /\ status = "error"

HasSpace(name) == \E j \in 1..Len(name) : name[j] = " "

(* C6: for every name without a space character name_must_contain_space    *)
(* raises ValueError (so UserDetail(age=29, name="Jason") fails, with a    *)
(* validation error on the field name and no instance), and for every name *)
(* that contains a space it returns the lowercased name, which is the      *)
(* value stored in UserDetail.name.                                        *)
C6_NameMustContainSpace ==
    cell = "UserDetail(name validator)" =>
        /\ IF HasSpace(arg.name)
           THEN /\ status = "ok"
                /\ value.age = arg.age
                /\ Len(value.name) = Len(arg.name)
                /\ \A j \in 1..Len(arg.name) :
                       value.name[j] = LowerChar(arg.name[j])
           ELSE /\ status = "error"
                /\ value = NoValue
                /\ err.type = "ValidationError"
                /\ err.field = "name"
                /\ err.cause = "ValueError"
        /\ (arg.age = 29 /\ arg.name = Jason) => status = "error"

(* A name with a space and an uppercase letter is stored lowercased. *)
C6_Witness ==
    /\ cell = "UserDetail(name validator)"
    /\ HasSpace(arg.name)
    /\ status = "ok"
    /\ value.name # arg.name

RECURSIVE Pow10(_)
Pow10(k) == IF k = 0 THEN 1 ELSE 10 * Pow10(k - 1)

(* s is n digits, alone or followed by "." and nothing but zeros. *)
IntegerPart(s, n) ==
    /\ n \in 1..Len(s)
    /\ \A j \in 1..n : s[j] \in Digits
    /\ \/ n = Len(s)
       \/ /\ s[n + 1] = "."
          /\ \A j \in (n + 2)..Len(s) : s[j] = "0"

DenotesInteger(s) == \E n \in 1..Len(s) : IntegerPart(s, n)

(* v is the number the first n characters of s are the decimal digits of. *)
IsDecimalValue(v, s, n) ==
    /\ v \in 0..(Pow10(n) - 1)
    /\ \A j \in 1..n : (v \div Pow10(n - j)) % 10 = DigitValue(s[j])

Thirty == <<"3", "0">>
ThirtyPointTwo == <<"3", "0", ".", "2">>

(* C9: Person.model_validate coerces a string age that denotes an integer  *)
(* to that integer (age "30" yields Person(name='Sam', age=30), so the     *)
(* follow-up assertion person.age == 20 fails while person.name == "Sam"   *)
(* holds), and rejects a string age that does not parse as an integer (age *)
(* "30.2") with a validation error on the age field instead of producing   *)
(* an instance.                                                            *)
C9_StringAgeCoerced ==
    /\ (cell = "Person.model_validate" /\ arg.obj.age.type = "str") =>
          LET s == arg.obj.age.s
          IN  /\ IF DenotesInteger(s)
                 THEN /\ status = "ok"
                      /\ value.name = arg.obj.name
                      /\ \E n \in 1..Len(s) :
                             /\ IntegerPart(s, n)
                             /\ IsDecimalValue(value.age, s, n)
                      /\ person = value
                 ELSE /\ status = "error"
                      /\ value = NoValue
                      /\ err.type = "ValidationError"
                      /\ err.field = "age"
                      /\ person = None
              /\ (s = Thirty /\ arg.obj.name = Sam) =>
                     value = [name |-> Sam, age |-> 30]
              /\ s = ThirtyPointTwo => status = "error"
    /\ (cell = "assert person" /\ arg.person = [name |-> Sam, age |-> 30]) =>
          /\ status = "error"
          /\ err = [type |-> "AssertionError", about |-> "age"]
          /\ person.name = Sam

(* Person(name='Sam', age=30), got from the age "30", failed the assert on *)
(* its age.                                                                *)
C9_Witness ==
    /\ cell = "assert person"
    /\ arg.person = [name |-> Sam, age |-> 30]
    /\ status = "error"

(* A call of one of the list-valued models with a text_chunk. *)
C10_Case ==
    /\ cell \in {"AnswerWithCitation(list[str]).model_validate",
                 "AnswerWithCitation(list[Citation]).model_validate"}
    /\ arg.context.present
    /\ DOMAIN arg.context.dict = {"text_chunk"}

(* The per-citation check of the call's model on the k-th citation. *)
C10_Passes(k) ==
    LET text_chunk == arg.context.dict.text_chunk
        citation == arg.obj.citations[k]
    IN  IF cell = "AnswerWithCitation(list[str]).model_validate"
        THEN Occurs(text_chunk, citation)
        ELSE /\ Occurs(text_chunk, citation.span_start)
             /\ Occurs(text_chunk, citation.span_end)
             /\ FirstIndex(text_chunk, citation.span_start)
                  <= FirstIndex(text_chunk, citation.span_end)

(* C10: the list-valued citation_exists validators (list[str] checked by   *)
(* substring, list[Citation] checked by Citation.check) accept the list if *)
(* and only if every element passes its per-citation check against        *)
(* text_chunk (an empty list is accepted), and on failure raise a          *)
(* ValueError naming the first failing citation in list order without      *)
(* examining later elements.                                               *)
C10_ListAcceptedIffAllPass ==
    C10_Case =>
        LET n == Len(arg.obj.citations)
        IN  IF \A k \in 1..n : C10_Passes(k)
            THEN /\ status = "ok"
                 /\ value = arg.obj
                 /\ i = n
            ELSE \E f \in 1..n :
                     /\ ~C10_Passes(f)
                     /\ \A k \in 1..(f - 1) : C10_Passes(k)
                     /\ status = "error"
                     /\ value = NoValue
                     /\ err.type = "ValidationError"
                     /\ err.cause = "ValueError"
                     /\ err.about = arg.obj.citations[f]
                     /\ i = f

(* A list whose first citation fails and whose second would fail too, and  *)
(* differs: the error names the first, the second was never examined.      *)
C10_Witness ==
    /\ C10_Case
    /\ Len(arg.obj.citations) = 2
    /\ ~C10_Passes(1)
    /\ ~C10_Passes(2)
    /\ arg.obj.citations[1] # arg.obj.citations[2]
    /\ status = "error"
    /\ i = 1

(* The validations the loop over the choices has made so far that failed. *)
C7_FailedChoices ==
    {k \in 1..i : Person_model_validate_json(arg.choices[k]).status = "error"}

(* A validation made in the cell by the notebook's own code has failed. *)
C7_ValidationFailed ==
    IF cell = "for choice in resp.choices"
    THEN C7_FailedChoices # {}
    ELSE /\ cell \notin {"none", "create(response_model=QuestionAnswer)"}
         /\ err # NoErr
         /\ err.type = "ValidationError"

(* C7 (as stated): a validation error raised on invalid input is never     *)
(* handled, recovered or retried by the notebooks' code: in every code     *)
(* cell a failed validation propagates as an error outcome that ends the   *)
(* cell: a cell in which a validation failed has ended in an error.        *)
C7_FailedValidationEndsCell ==
    (C7_ValidationFailed /\ status # "running") => status = "error"

(* The contents among the first n choices that fail validation, in order. *)
RECURSIVE C7_FailingContents(_, _)
C7_FailingContents(choices, n) ==
    IF n = 0 THEN <<>>
    ELSE IF Person_model_validate_json(choices[n]).status = "error"
         THEN Append(C7_FailingContents(choices, n - 1), choices[n])
         ELSE C7_FailingContents(choices, n - 1)

(* C7 (amended): a validation error raised on invalid input is handled by  *)
(* the notebooks' code in one place only: in the loop over resp.choices    *)
(* (1.introduction) every exception of Person.model_validate_json is       *)
(* caught, the content of the choice is printed and the loop goes on with  *)
(* the next choice, so that the cell never ends in an error; in every      *)
(* other code cell that validates directly a failed validation propagates  *)
(* as an error outcome that ends the cell, without an instance.            *)
C7_OnlyTheChoicesLoopCatches ==
    /\ (cell # "for choice in resp.choices" /\ C7_ValidationFailed) =>
          (status = "error" /\ value = NoValue)
    /\ cell = "for choice in resp.choices" =>
          /\ status \in {"running", "ok"}
          /\ err = NoErr
          /\ out = C7_FailingContents(arg.choices, i)
          /\ status = "ok" => i = Len(arg.choices)

(* The loop has ended without error after its first choice failed          *)
(* validation and a later one was validated.                               *)
C7_Witness ==
    /\ cell = "for choice in resp.choices"
    /\ status = "ok"
    /\ 1 \in C7_FailedChoices
    /\ Len(arg.choices) >= 2
    /\ Len(out) < Len(arg.choices)

C11_Case ==
    cell \in {"for obj in data: print is", "for obj in data: print next year"}

C11_NoneText == <<"N", "o", "n", "e">>

(* The name the lines of the k-th record show. *)
C11_Name(k) ==
    IF "first_name" \in DOMAIN arg.data[k]
    THEN arg.data[k].first_name.s
    ELSE C11_NoneText

(* The age of the k-th record is an int. *)
C11_IntAge(k) ==
    "age" \in DOMAIN arg.data[k] /\ arg.data[k].age.type = "int"

(* line is the line of the first loop for the k-th record. *)
C11_IsLine(line, k) ==
    /\ line.line = "is"
    /\ line.name = C11_Name(k)
    /\ IF "age" \notin DOMAIN arg.data[k] THEN line.age = C11_NoneText
       ELSE IF arg.data[k].age.type = "str"
            THEN line.age = arg.data[k].age.s
            ELSE IsDecimalValue(arg.data[k].age.n, line.age, Len(line.age))

(* line is the line of the second loop for the k-th record, its age an int. *)
C11_NextYearLine(line, k) ==
    /\ line.line = "next year"
    /\ line.name = C11_Name(k)
    /\ IsDecimalValue(arg.data[k].age.n + 1, line.age, Len(line.age))

(* C11: in the dictionary example the records are processed strictly in    *)
(* list order: the first loop completes over all the records without error *)
(* (a record lacking the key first_name prints None), and the second loop  *)
(* prints the line of each record whose age is an int (10 gives 11) and    *)
(* stops with a TypeError at the first record whose age is not, the string *)
(* "10" of the second record of data; no line is printed for the failing   *)
(* record or any record after it.                                          *)
C11_LoopsInListOrder ==
    C11_Case =>
        LET n == Len(arg.data)
        IN  /\ cell = "for obj in data: print is" =>
                  /\ status = "running"
                  /\ err = NoErr
                  /\ Len(out) = i
                  /\ \A k \in 1..i : C11_IsLine(out[k], k)
            /\ cell = "for obj in data: print next year" =>
                  /\ \A k \in 1..n : C11_IsLine(out[k], k)
                  /\ IF status = "error"
                     THEN /\ ~C11_IntAge(i)
                          /\ \A k \in 1..(i - 1) : C11_IntAge(k)
                          /\ err.type = "TypeError"
                          /\ Len(out) = n + i - 1
                     ELSE /\ \A k \in 1..i : C11_IntAge(k)
                          /\ err = NoErr
                          /\ Len(out) = n + i
                  /\ \A k \in 1..(Len(out) - n) :
                         C11_NextYearLine(out[n + k], k)
                  /\ status = "ok" => i = n
                  /\ (status = "running" /\ i < n /\ ~C11_IntAge(i + 1)) =>
                         Len(out) = n + i
            /\ (arg.data = data /\ status \in {"ok", "error"}) =>
                  /\ status = "error"
                  /\ i = 2
                  /\ out = <<[line |-> "is", name |-> Jason, age |-> Ten],
                             [line |-> "is", name |-> C11_NoneText,
                              age |-> Ten],
                             [line |-> "next year", name |-> Jason,
                              age |-> <<"1", "1">>]>>

(* The cell has run over the notebook's data and ended in the TypeError of *)
(* the second record, three lines printed.                                 *)
C11_Witness ==
    /\ cell = "for obj in data: print next year"
    /\ arg.data = data
    /\ status = "error"
    /\ err.type = "TypeError"
    /\ Len(out) = 3

(* The content is a JSON object with a name and an age that is an int or a *)
(* string denoting an integer: what Person.model_validate_json accepts.    *)
C12_Validates(json) ==
    /\ json.json
    /\ {"name", "age"} \subseteq DOMAIN json.obj
    /\ \/ json.obj.age.type = "int"
       \/ json.obj.age.type = "str" /\ DenotesInteger(json.obj.age.s)

(* An iteration of the loop over resp.choices. *)
C12_Iteration ==
    /\ cell = "for choice in resp.choices"
    /\ cell' = cell
    /\ i' # i

(* What an iteration does: it visits the choice after the last one         *)
(* visited, prints its content exactly when it does not validate, and      *)
(* leaves the loop running without an error.                               *)
C12_VisitsNext ==
    /\ i < Len(arg.choices)
    /\ i' = i + 1
    /\ arg' = arg
    /\ status' = "running"
    /\ err' = NoErr
    /\ out' = IF C12_Validates(arg.choices[i'])
              THEN out
              ELSE Append(out, arg.choices[i'])

(* C12: in the loop over the completion choices every choice is visited    *)
(* exactly once in order regardless of earlier failures: a choice's        *)
(* content is printed if and only if Person.model_validate_json raises on  *)
(* it, a choice that validates prints nothing, and no exception from       *)
(* validation escapes the loop, which ends only after the last choice.     *)
C12_EveryChoiceVisitedOnce ==
    /\ [][C12_Iteration => C12_VisitsNext]_vars
    /\ [](cell = "for choice in resp.choices" =>
            /\ status # "error"
            /\ i \in 0..Len(arg.choices)
            /\ status = "ok" => i = Len(arg.choices))

(* The loop has ended after three choices: the first and the third failed  *)
(* validation and were printed, the second validated and was not.          *)
C12_Witness ==
    /\ cell = "for choice in resp.choices"
    /\ status = "ok"
    /\ i = 3
    /\ ~C12_Validates(arg.choices[1])
    /\ C12_Validates(arg.choices[2])
    /\ ~C12_Validates(arg.choices[3])
    /\ out = <<arg.choices[1], arg.choices[3]>>

(* The word holds an uppercase letter. *)
C13_HasUpper(word) == \E j \in 1..Len(word) : LowerChar(word[j]) # word[j]

(* C13: the blacklist comparison lowercases the message but not the        *)
(* blacklist entries: an entry without uppercase letters rejects every     *)
(* message that holds it in whatever letter case, while an entry holding   *)
(* an uppercase letter never causes a rejection, even when the message     *)
(* holds that entry verbatim: the entry a rejection names has no uppercase *)
(* letter, and a blacklist of such entries alone accepts every message.    *)
C13_OnlyTheMessageIsLowercased ==
    C3_Case =>
        LET blacklist == arg.context.dict.blacklist
            message == arg.obj.message
        IN  /\ \A k \in 1..Len(blacklist) :
                   (~C13_HasUpper(blacklist[k])
                        /\ OccursFolded(message, blacklist[k])) =>
                       status = "error"
            /\ status = "error" =>
                   /\ \E k \in 1..Len(blacklist) :
                          err.about.word = blacklist[k]
                   /\ ~C13_HasUpper(err.about.word)
                   /\ OccursFolded(message, err.about.word)
            /\ (\A k \in 1..Len(blacklist) : C13_HasUpper(blacklist[k])) =>
                   status = "ok" /\ value = arg.obj

(* A message in uppercase, rejected for the second entry of the blacklist, *)
(* its lowercase form, after the first entry, which the message holds      *)
(* verbatim, let it pass.                                                  *)
C13_Witness ==
    /\ C3_Case
    /\ Len(arg.context.dict.blacklist) = 2
    /\ C13_HasUpper(arg.context.dict.blacklist[1])
    /\ Occurs(arg.obj.message, arg.context.dict.blacklist[1])
    /\ ~C13_HasUpper(arg.context.dict.blacklist[2])
    /\ Len(arg.context.dict.blacklist[2]) > 0
    /\ ~Occurs(arg.obj.message, arg.context.dict.blacklist[2])
    /\ status = "error"
    /\ err.about.word = arg.context.dict.blacklist[2]

=============================================================================
